---- MODULE Spec2Model ----
(***************************************************************************)
(* The passes of src/optimization/Reordering.cpp (NOP-filling scheduler,   *)
(* read-after-write splitting, moving of rotation sources), the order in   *)
(* which the optimizer runs them, and the use registry of src/Locals.cpp   *)
(* (VC4C).                                                                 *)
(*                                                                         *)
(* A method is a sequence of basic blocks, a basic block a sequence of     *)
(* slots.  A slot holds an instruction or is empty (the nullptr a released *)
(* walker leaves behind).  Cursors (InstructionWalker) are indices into a  *)
(* block: 1 is begin() (the block's label), Len + 1 is end().              *)
(***************************************************************************)
EXTENDS Integers, Sequences, FiniteSets, TLC

VARIABLES
    method,     \* the method's basic blocks, as the passes mutate them
    pc,         \* where the pass driver stands
    blk,        \* the block the running pass is in
    it,         \* the walker of the running pass within that block
    method0,    \* history: the method as it was handed to the pass
    last,       \* history: what the last iteration of the running pass did
    moves,      \* history: <<placeholder id, candidate id>> of every replacement
    users,      \* Local -> its use records, in insertion order
    call,       \* history: the last call on the use registry and its outcome
    frame       \* splitReadAfterWrites: lastInstruction and lastWrittenTo

vars == <<method, pc, blk, it, method0, last, moves, users, call, frame>>

---------------------------------------------------------------------------
(* Bounds of the model *)

\* instructions of a method after its first label, general specification
MaxLen == 4
\* the same for the specification of the instruction kinds
KindsLen == 4
\* the same for the specification of the mutex accesses
MutexLen == 4
\* the same for the specification of the SFU/TMU accesses
HazardLen == 4
\* the same for the specification of runs of placeholders
DelayLen == 5
\* addUser/removeUser: how far a counter may move away from zero
MaxCount == 2

---------------------------------------------------------------------------
(* Values: a Local (by name), a register, or a literal *)

NO_VALUE == "NO_VALUE"
LITERAL == "LITERAL"
REG_NOP == "REG_NOP"
REG_MUTEX == "REG_MUTEX"
REG_SFU_EXP2 == "REG_SFU_EXP2"
REG_SFU_LOG2 == "REG_SFU_LOG2"
REG_SFU_OUT == "REG_SFU_OUT"
REG_SFU_RECIP == "REG_SFU_RECIP"
REG_SFU_RECIP_SQRT == "REG_SFU_RECIP_SQRT"
REG_TMU_ADDRESS == "REG_TMU_ADDRESS"
REG_VPM_IN_ADDR == "REG_VPM_IN_ADDR"
REG_VPM_OUT_ADDR == "REG_VPM_OUT_ADDR"
REG_VPM_IN_BUSY == "REG_VPM_IN_BUSY"
REG_VPM_OUT_BUSY == "REG_VPM_OUT_BUSY"
REG_VPM_IO == "REG_VPM_IO"

Locals == {"x", "y", "z"}

\* the values the scan adds once it has passed a write to an SFU request
\* register or to the TMU address register
SFUWidening ==
    {REG_SFU_EXP2, REG_SFU_LOG2, REG_SFU_OUT, REG_SFU_RECIP,
     REG_SFU_RECIP_SQRT, REG_TMU_ADDRESS}

---------------------------------------------------------------------------
(* Instructions *)

\* DelayType of a Nop; NO_DELAY for every other instruction
DelayType == {"BRANCH_DELAY", "THREAD_END", "WAIT_REGISTER", "WAIT_SFU", "WAIT_TMU"}
NO_DELAY == "NO_DELAY"

\* an IntermediateInstruction, by the fields the passes read
Instruction(kind, out, args) ==
    [id |-> 0, kind |-> kind, out |-> out, args |-> args,
     cond |-> FALSE, sideEffects |-> FALSE, asm |-> TRUE,
     canBeCombined |-> TRUE, type |-> NO_DELAY, pack |-> FALSE]

\* an empty slot: the walker's get() is nullptr
NULLPTR == [Instruction("NULL", NO_VALUE, <<>>) EXCEPT !.asm = FALSE]

Nop(type) == [Instruction("Nop", NO_VALUE, <<>>) EXCEPT !.type = type]
BranchLabel == [Instruction("BranchLabel", NO_VALUE, <<>>) EXCEPT !.asm = FALSE]
Branch == Instruction("Branch", NO_VALUE, <<>>)
MemoryBarrier == [Instruction("MemoryBarrier", NO_VALUE, <<>>) EXCEPT !.asm = FALSE]
Op(out, args) == Instruction("Operation", out, args)

IsNull(slot) == slot.kind = "NULL"
HasOutput(instr) == instr.out # NO_VALUE

\* basicBlock.end(), and a walker's isEndOfBlock / isStartOfBlock
End(basicBlock) == Len(basicBlock) + 1
IsEndOfBlock(basicBlock, pos) == pos = End(basicBlock)
IsStartOfBlock(pos) == pos = 1

---------------------------------------------------------------------------
(* Candidate search, Reordering.cpp *)

\* the lookahead of the forward scan, in slots
REPLACE_NOP_MAX_INSTRUCTIONS_TO_CHECK == 3

\* The last instruction before the placeholder that has an output.
RECURSIVE findPreviousInstruction(_, _)
findPreviousInstruction(basicBlock, pos) ==
    IF IsStartOfBlock(pos) THEN pos
    ELSE IF ~IsNull(basicBlock[pos]) /\ HasOutput(basicBlock[pos]) THEN pos
    ELSE findPreviousInstruction(basicBlock, pos - 1)

\* the output or an argument is one of the excluded values
AccessesExcluded(instr, excludedValues) ==
    \/ HasOutput(instr) /\ instr.out \in excludedValues
    \/ \E i \in DOMAIN instr.args : instr.args[i] \in excludedValues

\* mutant: branches, labels and barriers are candidates like any other
ValidReplacementOfAnyKind(instr, excludedValues) ==
    /\ ~AccessesExcluded(instr, excludedValues)
    /\ ~(instr.cond \/ instr.sideEffects)
    /\ instr.kind # "Nop"
    /\ instr.asm

\* validReplacement as it stands before the tests on REG_MUTEX
ValidReplacement(instr, excludedValues) ==
    /\ ~AccessesExcluded(instr, excludedValues)
    /\ ~(instr.cond \/ instr.sideEffects)
    /\ instr.kind \notin {"Branch", "BranchLabel", "MemoryBarrier"}
    /\ instr.kind # "Nop"
    /\ instr.asm

\* the instruction writes REG_MUTEX (a release)
WritesMutex(instr) == HasOutput(instr) /\ instr.out = REG_MUTEX

\* the first or second argument is REG_MUTEX (an acquire)
ReadsMutex(instr) ==
    \/ Len(instr.args) >= 1 /\ instr.args[1] = REG_MUTEX
    \/ Len(instr.args) >= 2 /\ instr.args[2] = REG_MUTEX

\* mutant: the outputs of the passed instructions are forgotten
ExcludeOutputForgets(instr, excludedValues) == excludedValues

\* mutant: the output of a passed SFU or TMU access is excluded like any other
ExcludeOutputWithoutWidening(instr, excludedValues) ==
    IF HasOutput(instr) /\ instr.out # REG_NOP
    THEN excludedValues \cup {instr.out}
    ELSE excludedValues

\* the excluded values after a rejected instruction was passed
ExcludeOutput(instr, excludedValues) ==
    IF HasOutput(instr) /\ instr.out # REG_NOP
    THEN excludedValues \cup {instr.out}
         \cup (IF instr.out \in {REG_SFU_EXP2, REG_SFU_LOG2, REG_SFU_RECIP,
                                 REG_SFU_RECIP_SQRT, REG_TMU_ADDRESS}
               THEN SFUWidening ELSE {})
    ELSE excludedValues

\* The loop of findInstructionNotAccessing: the walker it ends with and the
\* excluded values it has collected.
RECURSIVE ScanForward(_, _, _, _)
ScanForward(basicBlock, pos, instrctionsLeft, excludedValues) ==
    IF instrctionsLeft = 0
    THEN [pos |-> End(basicBlock), excluded |-> excludedValues]
    ELSE IF IsEndOfBlock(basicBlock, pos)
    THEN [pos |-> pos, excluded |-> excludedValues]
    ELSE IF IsNull(basicBlock[pos])
    THEN ScanForward(basicBlock, pos + 1, instrctionsLeft - 1, excludedValues)
    ELSE IF ValidReplacement(basicBlock[pos], excludedValues)
            /\ WritesMutex(basicBlock[pos])
    THEN [pos |-> End(basicBlock), excluded |-> excludedValues]
    ELSE IF ValidReplacement(basicBlock[pos], excludedValues)
            /\ ReadsMutex(basicBlock[pos])
    THEN [pos |-> End(basicBlock), excluded |-> excludedValues]
    ELSE IF ValidReplacement(basicBlock[pos], excludedValues)
    THEN [pos |-> pos, excluded |-> excludedValues]
    ELSE ScanForward(basicBlock, pos + 1, instrctionsLeft - 1,
                     ExcludeOutput(basicBlock[pos], excludedValues))

\* mutant: the scan goes on to the end of the block
findInstructionNotAccessingToTheEnd(basicBlock, pos, excludedValues) ==
    ScanForward(basicBlock, pos, Len(basicBlock) + 1, excludedValues).pos

findInstructionNotAccessing(basicBlock, pos, excludedValues) ==
    ScanForward(basicBlock, pos, REPLACE_NOP_MAX_INSTRUCTIONS_TO_CHECK,
                excludedValues).pos

\* WAIT_REGISTER: the values excluded because of the instruction at lastInstruction
RegisterExclusion(basicBlock, lastInstruction) ==
    {basicBlock[lastInstruction].out}
    \cup (IF basicBlock[lastInstruction].out = REG_VPM_IN_ADDR
          THEN {REG_VPM_IN_BUSY, REG_VPM_IO} ELSE {})
    \cup (IF basicBlock[lastInstruction].out = REG_VPM_OUT_ADDR
          THEN {REG_VPM_OUT_BUSY, REG_VPM_IO} ELSE {})

\* mutant: the SFU result register r4 is not excluded
WaitSFUExclusionWithoutResult ==
    {REG_SFU_EXP2, REG_SFU_LOG2, REG_SFU_RECIP, REG_SFU_RECIP_SQRT,
     REG_TMU_ADDRESS}

\* WAIT_SFU, WAIT_TMU: the values excluded
WaitSFUExclusion ==
    {REG_SFU_EXP2, REG_SFU_LOG2, REG_SFU_OUT, REG_SFU_RECIP,
     REG_SFU_RECIP_SQRT, REG_TMU_ADDRESS}

\* mutant: a BRANCH_DELAY or THREAD_END placeholder is filled like any other
findReplacementCandidateAnyDelay(basicBlock, pos, nopReason) ==
    findInstructionNotAccessing(basicBlock, pos, {})

findReplacementCandidate(basicBlock, pos, nopReason) ==
    CASE nopReason = "BRANCH_DELAY" -> End(basicBlock)
      [] nopReason = "THREAD_END" -> End(basicBlock)
      [] nopReason = "WAIT_REGISTER" ->
            IF IsStartOfBlock(findPreviousInstruction(basicBlock, pos))
            THEN End(basicBlock)
            ELSE findInstructionNotAccessing(basicBlock, pos,
                    RegisterExclusion(basicBlock,
                                      findPreviousInstruction(basicBlock, pos)))
      [] nopReason \in {"WAIT_SFU", "WAIT_TMU"} ->
            findInstructionNotAccessing(basicBlock, pos, WaitSFUExclusion)

---------------------------------------------------------------------------
(* NOP replacement, Reordering.cpp *)

\* mutant: the candidate is copied, its own slot keeps it
ReleaseCopies(basicBlock, replacementIt) == basicBlock

\* replacementIt.release(): the instruction leaves its slot, the slot stays
Release(basicBlock, replacementIt) ==
    [basicBlock EXCEPT ![replacementIt] = NULLPTR]

\* mutant: the installed instruction keeps its own flag whatever the
\* placeholder's
InstallWithoutCarryOver(basicBlock, pos, replacementIt) ==
    [Release(basicBlock, replacementIt) EXCEPT ![pos] = basicBlock[replacementIt]]

\* it.reset(...) and the carry-over of a placeholder that cannot be combined
Install(basicBlock, pos, replacementIt) ==
    [Release(basicBlock, replacementIt) EXCEPT ![pos] =
        IF ~basicBlock[pos].canBeCombined
        THEN [basicBlock[replacementIt] EXCEPT !.canBeCombined = FALSE]
        ELSE basicBlock[replacementIt]]

\* mutant: a Nop with side effects is replaced like any other
IsReplaceableNopWithSideEffects(slot) == slot.kind = "Nop"

\* a Nop that replaceNOPs tries to replace
IsReplaceableNop(slot) == slot.kind = "Nop" /\ ~slot.sideEffects

\* one iteration of the loop of replaceNOPs, on block blk at walker it
ReplaceNOPsIteration(basicBlock, pos) ==
    IF IsReplaceableNop(basicBlock[pos])
       /\ ~IsEndOfBlock(basicBlock,
               findReplacementCandidate(basicBlock, pos, basicBlock[pos].type))
    THEN Install(basicBlock, pos,
                 findReplacementCandidate(basicBlock, pos, basicBlock[pos].type))
    ELSE basicBlock

\* method.cleanEmptyInstructions(): empty slots are compacted out
cleanEmptyInstructions(m) ==
    [b \in DOMAIN m |-> SelectSeq(m[b], LAMBDA slot : ~IsNull(slot))]

\* the candidate the iteration found, 0 when it replaced nothing
CandidateOf(basicBlock, pos) ==
    IF IsReplaceableNop(basicBlock[pos])
       /\ ~IsEndOfBlock(basicBlock,
               findReplacementCandidate(basicBlock, pos, basicBlock[pos].type))
    THEN findReplacementCandidate(basicBlock, pos, basicBlock[pos].type)
    ELSE 0

NoIteration == [blk |-> 0, pos |-> 0, cand |-> 0, before |-> <<>>]

\* no pass with variables of its own is running
NoFrame == [lastInstruction |-> <<0, 0>>, lastWrittenTo |-> NO_VALUE]

replaceNOPs ==
    /\ pc = "replaceNOPs"
    /\ ~IsEndOfBlock(method[blk], it)
    /\ method' = [method EXCEPT ![blk] = ReplaceNOPsIteration(method[blk], it)]
    /\ it' = it + 1
    /\ last' = [blk |-> blk, pos |-> it, cand |-> CandidateOf(method[blk], it),
                before |-> method[blk]]
    /\ moves' = IF CandidateOf(method[blk], it) # 0
                THEN moves \cup {<<method[blk][it].id,
                                   method[blk][CandidateOf(method[blk], it)].id>>}
                ELSE moves
    /\ UNCHANGED <<pc, blk, method0, users, call, frame>>

\* the loop of reorderWithinBasicBlocks goes on to the next block
nextBasicBlock ==
    /\ pc = "replaceNOPs"
    /\ IsEndOfBlock(method[blk], it)
    /\ blk < Len(method)
    /\ blk' = blk + 1
    /\ it' = 1
    /\ UNCHANGED <<method, pc, method0, last, moves, users, call, frame>>

\* after the last block: remove the empty slots
reorderWithinBasicBlocksEnd ==
    /\ pc = "replaceNOPs"
    /\ IsEndOfBlock(method[blk], it)
    /\ blk = Len(method)
    /\ method' = cleanEmptyInstructions(method)
    /\ pc' = "done"
    /\ UNCHANGED <<blk, it, method0, last, moves, users, call, frame>>

---------------------------------------------------------------------------
(* The methods a specification starts from *)

\* the positions of the labels in a flat instruction sequence
LabelPositions(flat) == {i \in DOMAIN flat : flat[i].kind = "BranchLabel"}

\* the block that starts at label position p
BlockFrom(flat, p) ==
    SubSeq(flat, p,
           IF \E q \in LabelPositions(flat) : q > p
           THEN (CHOOSE q \in LabelPositions(flat) :
                    q > p /\ \A r \in LabelPositions(flat) : r > p => q <= r) - 1
           ELSE Len(flat))

RECURSIVE SortedSeq(_)
SortedSeq(S) ==
    IF S = {} THEN <<>>
    ELSE LET m == CHOOSE a \in S : \A b \in S : a <= b
         IN <<m>> \o SortedSeq(S \ {m})

\* a method from the instructions after its first label: every instruction
\* gets its position as id, every label starts a block
BuildMethod(f) ==
    LET flat == [i \in 1..(Len(f) + 1) |->
                    [(IF i = 1 THEN BranchLabel ELSE f[i - 1]) EXCEPT !.id = i]]
        starts == SortedSeq(LabelPositions(flat))
    IN [b \in DOMAIN starts |-> BlockFrom(flat, starts[b])]

InitReorder(catalog, len) ==
    /\ \E f \in [1..len -> catalog] : method = BuildMethod(f)
    /\ method0 = method
    /\ pc = "replaceNOPs"
    /\ blk = 1
    /\ it = 1
    /\ last = NoIteration
    /\ moves = {}
    /\ users = [l \in Locals |-> <<>>]
    /\ call = [op |-> "none", local |-> "", user |-> "", type |-> "", error |-> FALSE,
               before |-> <<>>, result |-> <<>>]
    /\ frame = NoFrame

NextReorder == replaceNOPs \/ nextBasicBlock \/ reorderWithinBasicBlocksEnd

\* general catalog: data dependencies between moved and passed instructions
Catalog ==
    {BranchLabel, Nop("WAIT_REGISTER"),
     Op("x", <<LITERAL>>), Op("z", <<LITERAL>>),
     Op("y", <<"x">>), Op("z", <<"y">>), Op("y", <<"x", "z">>),
     Op(REG_NOP, <<"x">>), Op("z", <<REG_NOP>>)}

Init == InitReorder(Catalog, MaxLen)
Next == NextReorder
Spec == Init /\ [][Next]_vars

---------------------------------------------------------------------------
(* What is said of the last iteration of replaceNOPs *)

\* the iteration replaced the placeholder
Replaced == last.cand # 0

\* the instruction that was moved, as it stood at its original position
Moved == last.before[last.cand]

\* the slots the scan passed: after the placeholder, before the candidate
Passed == {j \in DOMAIN last.before :
              last.pos < j /\ j < last.cand /\ ~IsNull(last.before[j])}

\* the values an instruction reads
ArgumentsOf(instr) == {instr.args[i] : i \in DOMAIN instr.args}

\* C1 as stated: the moved instruction reads no value that an instruction
\* between the placeholder and the candidate's original position writes.
C1_NoReadOfPassedWrite ==
    Replaced =>
        \A j \in Passed :
            HasOutput(last.before[j]) => last.before[j].out \notin ArgumentsOf(Moved)

\* C1 amended: the moved instruction reads no value, other than the discard
\* register REG_NOP, that an instruction between the placeholder and the
\* candidate's original position writes.
C1_NoReadOfPassedWriteButDiscard ==
    Replaced =>
        \A j \in Passed :
            HasOutput(last.before[j]) /\ last.before[j].out # REG_NOP
                => last.before[j].out \notin ArgumentsOf(Moved)

\* a replacement that passed an instruction writing a Local, the moved
\* instruction reading a Local itself
C1_Witness ==
    /\ Replaced
    /\ \E j \in Passed : last.before[j].out \in Locals
    /\ ArgumentsOf(Moved) \cap Locals # {}

---------------------------------------------------------------------------
(* What is said of the method after reorderWithinBasicBlocks *)

Ids(basicBlock) == [i \in DOMAIN basicBlock |-> basicBlock[i].id]

\* the ids a block must hold: a replaced placeholder gives its place to its
\* candidate, the candidate's own place is gone
ExpectedIds(block0) ==
    SelectSeq(
        [i \in DOMAIN block0 |->
            IF \E m \in moves : m[1] = block0[i].id
            THEN (CHOOSE m \in moves : m[1] = block0[i].id)[2]
            ELSE IF \E m \in moves : m[2] = block0[i].id
            THEN 0
            ELSE block0[i].id],
        LAMBDA v : v # 0)

\* the instruction of the original method with the given id
Original(id) ==
    LET b == CHOOSE b \in DOMAIN method0 :
                 \E i \in DOMAIN method0[b] : method0[b][i].id = id
    IN method0[b][CHOOSE i \in DOMAIN method0[b] : method0[b][i].id = id]

SameButCombine(a, b) ==
    [a EXCEPT !.canBeCombined = TRUE] = [b EXCEPT !.canBeCombined = TRUE]

\* C8: after reorderWithinBasicBlocks every block holds its original
\* instructions without the replaced placeholders, each moved candidate once
\* and at its placeholder's place, the others in their order, no instruction
\* in another block, and no empty slot.
C8_MoveNeverCopiesOrLoses ==
    pc = "done" =>
        /\ DOMAIN method = DOMAIN method0
        /\ \A b \in DOMAIN method :
              /\ Ids(method[b]) = ExpectedIds(method0[b])
              /\ \A i \in DOMAIN method[b] :
                    /\ ~IsNull(method[b][i])
                    /\ SameButCombine(method[b][i], Original(method[b][i].id))

\* a finished pass over a method of two blocks or more, one of which had a
\* placeholder replaced and an empty slot compacted out
C8_Witness ==
    /\ pc = "done"
    /\ Len(method) >= 2
    /\ moves # {}
    /\ \E b \in DOMAIN method : Len(method[b]) < Len(method0[b])

---------------------------------------------------------------------------
(* Mutex accesses in the forward scan *)

Conditional(instr) == [instr EXCEPT !.cond = TRUE]
WithSideEffects(instr) == [instr EXCEPT !.sideEffects = TRUE]
NotMapped(instr) == [instr EXCEPT !.asm = FALSE]

\* releases (writes of REG_MUTEX) and acquires (reads of it), plain and with
\* the properties the earlier tests of the scan reject
CatalogMutex ==
    {BranchLabel, Nop("WAIT_REGISTER"),
     Op("x", <<LITERAL>>), Op("y", <<LITERAL>>),
     Op(REG_MUTEX, <<LITERAL>>),
     WithSideEffects(Op(REG_MUTEX, <<LITERAL>>)),
     Op(REG_MUTEX, <<"x">>),
     Op(REG_NOP, <<REG_MUTEX>>),
     Conditional(Op(REG_NOP, <<REG_MUTEX>>)),
     Op("x", <<LITERAL, REG_MUTEX>>)}

InitMutex == InitReorder(CatalogMutex, MutexLen)
SpecMutex == InitMutex /\ [][NextReorder]_vars

\* the slots the scan reached: the placeholder up to the candidate
Reached == {j \in DOMAIN last.before :
               last.pos <= j /\ j <= last.cand /\ ~IsNull(last.before[j])}

\* C2: no placeholder is replaced by a search that reached a release: no
\* instruction at or after an instruction writing REG_MUTEX is moved to a
\* placeholder before it.
C2_ReleaseNeverCrossed ==
    Replaced => \A j \in Reached : last.before[j].out # REG_MUTEX

\* C3: no placeholder is replaced by a search that reached an acquire: no
\* instruction at or after an instruction with REG_MUTEX as first or second
\* argument is moved to the placeholder.
C3_AcquireEndsSearch ==
    Replaced =>
        \A j \in Reached :
            \A i \in DOMAIN last.before[j].args :
                i <= 2 => last.before[j].args[i] # REG_MUTEX

---------------------------------------------------------------------------
(* Instruction kinds and delay types *)

CatalogKinds ==
    {BranchLabel, Nop("WAIT_REGISTER"), Nop("BRANCH_DELAY"), Nop("THREAD_END"),
     Op("x", <<LITERAL>>), Op("y", <<LITERAL>>),
     Branch, MemoryBarrier,
     Conditional(Op("y", <<LITERAL>>)),
     WithSideEffects(Op("y", <<LITERAL>>)),
     NotMapped(Op("y", <<LITERAL>>))}

InitKinds == InitReorder(CatalogKinds, KindsLen)
SpecKinds == InitKinds /\ [][NextReorder]_vars

\* the instruction now in the slot of the last iteration's placeholder
Installed == method[last.blk][last.pos]

\* C4: the instruction installed in a placeholder's slot is no branch, no
\* label, no memory barrier, no placeholder, has no side effects and no
\* conditional execution, and maps to a machine instruction.
C4_InstalledKind ==
    pc = "replaceNOPs" /\ Replaced =>
        /\ Installed.kind \notin {"Branch", "BranchLabel", "MemoryBarrier", "Nop", "NULL"}
        /\ ~Installed.sideEffects
        /\ ~Installed.cond
        /\ Installed.asm

\* a replacement whose scan passed an instruction of a rejected kind
C4_Witness ==
    /\ pc = "replaceNOPs"
    /\ Replaced
    /\ \E j \in Passed :
          \/ last.before[j].kind \in {"Branch", "MemoryBarrier", "Nop"}
          \/ last.before[j].sideEffects
          \/ last.before[j].cond
          \/ ~last.before[j].asm

NeverReplaced(slot) == slot.kind = "Nop" /\ slot.type \in {"BRANCH_DELAY", "THREAD_END"}

\* C7: a BRANCH_DELAY or THREAD_END placeholder is never replaced: its
\* iteration finds no candidate and leaves the block as it was, and the
\* placeholder is in its block for as long as the pass runs and after it.
C7_BranchDelayAndThreadEndStay ==
    /\ \A b \in DOMAIN method0 : \A i \in DOMAIN method0[b] :
          NeverReplaced(method0[b][i]) =>
              \E j \in DOMAIN method[b] : method[b][j] = method0[b][i]
    /\ (pc = "replaceNOPs" /\ last.pos # 0 /\ NeverReplaced(last.before[last.pos]))
          => (~Replaced /\ method[last.blk] = last.before)

\* the iteration of a BRANCH_DELAY or THREAD_END placeholder that an
\* instruction passing every test of the scan follows directly
C7_Witness ==
    /\ pc = "replaceNOPs"
    /\ last.pos # 0
    /\ NeverReplaced(last.before[last.pos])
    /\ last.pos < Len(last.before)
    /\ ValidReplacement(last.before[last.pos + 1], {})

---------------------------------------------------------------------------
(* SFU and TMU accesses *)

CatalogHazard ==
    {BranchLabel, Nop("WAIT_SFU"), Nop("WAIT_TMU"),
     Op("y", <<LITERAL>>),
     Op(REG_SFU_EXP2, <<"x">>), Op(REG_SFU_LOG2, <<"x">>),
     Op(REG_SFU_RECIP, <<"x">>), Op(REG_SFU_RECIP_SQRT, <<"x">>),
     Op("z", <<REG_SFU_OUT>>), Op(REG_TMU_ADDRESS, <<"x">>)}

InitHazard == InitReorder(CatalogHazard, HazardLen)
SpecHazard == InitHazard /\ [][NextReorder]_vars

\* the values an instruction has as result or as argument
Accessed(instr) ==
    ArgumentsOf(instr) \cup (IF HasOutput(instr) THEN {instr.out} ELSE {})

\* C6: the instruction installed for a WAIT_SFU or WAIT_TMU placeholder has
\* none of the four SFU request registers, the SFU result register and the
\* TMU address register as result or argument.
C6_NoSFUOrTMUAccessInstalled ==
    (pc = "replaceNOPs" /\ Replaced
        /\ last.before[last.pos].type \in {"WAIT_SFU", "WAIT_TMU"})
    => Accessed(Installed) \cap
          {"REG_SFU_EXP2", "REG_SFU_LOG2", "REG_SFU_RECIP", "REG_SFU_RECIP_SQRT",
           "REG_SFU_OUT", "REG_TMU_ADDRESS"} = {}

\* a WAIT_SFU or WAIT_TMU placeholder replaced by an instruction found behind
\* a read of the SFU result register
C6_Witness ==
    /\ pc = "replaceNOPs"
    /\ Replaced
    /\ last.before[last.pos].type \in {"WAIT_SFU", "WAIT_TMU"}
    /\ \E j \in Passed : REG_SFU_OUT \in ArgumentsOf(last.before[j])

---------------------------------------------------------------------------
(* Runs of WAIT_REGISTER placeholders *)

CatalogDelay ==
    {BranchLabel, Nop("WAIT_REGISTER"),
     Op("x", <<LITERAL>>), Op("y", <<LITERAL>>), Op("z", <<"x">>),
     Op(REG_VPM_IN_ADDR, <<LITERAL>>), Op("y", <<REG_VPM_IO>>)}

InitDelay == InitReorder(CatalogDelay, DelayLen)
SpecDelay == InitDelay /\ [][NextReorder]_vars

\* where the instruction with the given id stood in a block of the original
\* method
OriginalPos(block0, id) == CHOOSE i \in DOMAIN block0 : block0[i].id = id

\* the instructions of the original block that produce a result, are no
\* placeholders and stand before position p
ProducersBefore(block0, p) ==
    {j \in DOMAIN block0 :
        j < p /\ block0[j].kind # "Nop" /\ HasOutput(block0[j])}

\* the value written by the instruction that caused the delay of the
\* placeholder at p: the last of the producers before its run of placeholders
DelayedValue(block0, p) ==
    block0[CHOOSE j \in ProducersBefore(block0, p) :
               \A k \in ProducersBefore(block0, p) : k <= j].out

\* C5: the instruction installed for a WAIT_REGISTER placeholder neither
\* writes nor reads the value written by the instruction that caused the
\* delay, nor, when that value is the VPM input (output) address register,
\* the VPM input-busy (output-busy) register or the VPM data register.
C5_DelayedValueNotAccessed ==
    (pc = "replaceNOPs" /\ Replaced
        /\ last.before[last.pos].type = "WAIT_REGISTER"
        /\ ProducersBefore(method0[last.blk],
              OriginalPos(method0[last.blk], last.before[last.pos].id)) # {})
    => LET v == DelayedValue(method0[last.blk],
                   OriginalPos(method0[last.blk], last.before[last.pos].id))
       IN /\ v \notin Accessed(Installed)
          /\ v = REG_VPM_IN_ADDR =>
                Accessed(Installed) \cap {REG_VPM_IN_BUSY, REG_VPM_IO} = {}
          /\ v = REG_VPM_OUT_ADDR =>
                Accessed(Installed) \cap {REG_VPM_OUT_BUSY, REG_VPM_IO} = {}

---------------------------------------------------------------------------
(* The use registry of a Local, Locals.cpp *)

\* LocalUser::Type and has_flag
READER == "READER"
WRITER == "WRITER"
BOTH == "BOTH"
UserType == {READER, WRITER, BOTH}
has_flag(type, flag) == type = flag \/ type = BOTH

\* A LocalUse counter is unsigned: it is kept here by the integer that is
\* congruent to it modulo 2^32 and lies nearest to zero, so that -1 stands
\* for the counter 2^32 - 1 that --0 leaves.  A counter is greater than zero
\* exactly when it is not zero.
LocalUse == [numReads |-> 0, numWrites |-> 0]
readsLocal(use) == use.numReads # 0
writesLocal(use) == use.numWrites # 0

\* users.find(&user): the index of the user's record, 0 for users.end()
Find(us, user) ==
    IF \E i \in DOMAIN us : us[i].user = user
    THEN CHOOSE i \in DOMAIN us : us[i].user = user
    ELSE 0

\* users.erase(&user)
Erase(us, user) == SelectSeq(us, LAMBDA r : r.user # user)

\* the record after --use.numReads or --use.numWrites
Decrement(r, type) ==
    IF type = READER THEN [r EXCEPT !.use.numReads = @ - 1]
    ELSE IF type = WRITER THEN [r EXCEPT !.use.numWrites = @ - 1]
    ELSE r

\* mutant: a user without record is ignored
removeUserIgnoresMissing(us, user, type) ==
    IF type = BOTH \/ Find(us, user) = 0
    THEN [users |-> Erase(us, user), error |-> FALSE]
    ELSE IF ~readsLocal(Decrement(us[Find(us, user)], type).use)
            /\ ~writesLocal(Decrement(us[Find(us, user)], type).use)
    THEN [users |-> Erase(us, user), error |-> FALSE]
    ELSE [users |-> [us EXCEPT ![Find(us, user)] = Decrement(@, type)],
          error |-> FALSE]

\* mutant: removeUser(user, BOTH) looks the user up as the other types do
removeUserLooksUpBoth(us, user, type) ==
    IF Find(us, user) = 0
    THEN [users |-> us, error |-> TRUE]
    ELSE IF type = BOTH
    THEN [users |-> Erase(us, user), error |-> FALSE]
    ELSE IF ~readsLocal(Decrement(us[Find(us, user)], type).use)
            /\ ~writesLocal(Decrement(us[Find(us, user)], type).use)
    THEN [users |-> Erase(us, user), error |-> FALSE]
    ELSE [users |-> [us EXCEPT ![Find(us, user)] = Decrement(@, type)],
          error |-> FALSE]

\* Local::removeUser: the use records it leaves, and whether it threw
removeUser(us, user, type) ==
    IF type = BOTH
    THEN [users |-> Erase(us, user), error |-> FALSE]
    ELSE IF Find(us, user) = 0
    THEN [users |-> us, error |-> TRUE]
    ELSE IF ~readsLocal(Decrement(us[Find(us, user)], type).use)
            /\ ~writesLocal(Decrement(us[Find(us, user)], type).use)
    THEN [users |-> Erase(us, user), error |-> FALSE]
    ELSE [users |-> [us EXCEPT ![Find(us, user)] = Decrement(@, type)],
          error |-> FALSE]

\* mutant: every call counts a read, whatever its type
IncrementCountsRead(r, type) ==
    [r EXCEPT !.use.numReads = @ + 1,
              !.use.numWrites = IF has_flag(type, WRITER) THEN @ + 1 ELSE @]

\* the record after ++use.numReads and/or ++use.numWrites
Increment(r, type) ==
    [r EXCEPT !.use.numReads = IF has_flag(type, READER) THEN @ + 1 ELSE @,
              !.use.numWrites = IF has_flag(type, WRITER) THEN @ + 1 ELSE @]

\* mutant: a new record starts with one write counted
addUserStartsWritten(us, user, type) ==
    IF Find(us, user) = 0
    THEN Append(us, Increment([user |-> user,
                               use |-> [numReads |-> 0, numWrites |-> 1]], type))
    ELSE [us EXCEPT ![Find(us, user)] = Increment(@, type)]

\* Local::addUser
addUser(us, user, type) ==
    IF Find(us, user) = 0
    THEN Append(us, Increment([user |-> user, use |-> LocalUse], type))
    ELSE [us EXCEPT ![Find(us, user)] = Increment(@, type)]

\* mutant: the filter of getUsers and forUsers lets every record pass
MatchesAlways(use, type) == has_flag(type, READER) \/ has_flag(type, WRITER)

\* the filter of getUsers and forUsers
Matches(use, type) ==
    \/ (has_flag(type, READER) /\ readsLocal(use))
    \/ (has_flag(type, WRITER) /\ writesLocal(use))

\* Local::getUsers(type): the set of the users whose record passes the filter
getUsers(us, type) == {us[i].user : i \in {j \in DOMAIN us : Matches(us[j].use, type)}}

\* Local::forUsers(type, consumer): the users the consumer is called with,
\* one entry a call, in the order of the calls
forUsers(us, type) ==
    LET passing == SelectSeq(us, LAMBDA r : Matches(r.use, type))
    IN  [i \in 1..Len(passing) |-> passing[i].user]

nullptr == "nullptr"

\* mutant: the first writer is returned, whatever follows it
RECURSIVE FirstWriterFrom(_, _, _)
FirstWriterFrom(us, i, writer) ==
    IF i > Len(us) THEN writer
    ELSE IF writesLocal(us[i].use) THEN us[i].user
    ELSE FirstWriterFrom(us, i + 1, writer)

\* the loop of Local::getSingleWriter from the i-th record on
RECURSIVE SingleWriterFrom(_, _, _)
SingleWriterFrom(us, i, writer) ==
    IF i > Len(us) THEN writer
    ELSE IF writesLocal(us[i].use)
    THEN IF writer # nullptr THEN nullptr
         ELSE SingleWriterFrom(us, i + 1, us[i].user)
    ELSE SingleWriterFrom(us, i + 1, writer)

\* Local::getSingleWriter
getSingleWriter(us) == SingleWriterFrom(us, 1, nullptr)

\* LocalUser::getUsedLocals of the users of the registry specification: the
\* Locals a user has as operand or result, with the way it uses them.  It is
\* derived from the user's own fields, which no call of the registry changes.
getUsedLocals(user) ==
    IF user = "u1" THEN [l \in {"x"} |-> READER] ELSE [l \in {} |-> READER]

\* LocalUser::readsLocal and LocalUser::writesLocal
UserReadsLocal(user, local) ==
    /\ local \in DOMAIN getUsedLocals(user)
    /\ has_flag(getUsedLocals(user)[local], READER)
UserWritesLocal(user, local) ==
    /\ local \in DOMAIN getUsedLocals(user)
    /\ has_flag(getUsedLocals(user)[local], WRITER)

\* the users and the Local the calls of the registry specification are made on
RegistryUsers == {"u1", "u2"}
RegistryLocals == {"x"}

\* every counter of the records is within the bound of the model
WithinBound(us) ==
    \A i \in DOMAIN us :
        /\ us[i].use.numReads \in (0 - MaxCount)..MaxCount
        /\ us[i].use.numWrites \in (0 - MaxCount)..MaxCount

NoCall == [op |-> "none", local |-> "", user |-> "", type |-> "", error |-> FALSE,
           before |-> <<>>, result |-> <<>>]

AddUser(l, user, type) ==
    /\ pc = "registry"
    /\ WithinBound(addUser(users[l], user, type))
    /\ users' = [users EXCEPT ![l] = addUser(users[l], user, type)]
    /\ call' = [op |-> "addUser", local |-> l, user |-> user, type |-> type,
                error |-> FALSE, before |-> users[l], result |-> <<>>]
    /\ UNCHANGED <<method, pc, blk, it, method0, last, moves, frame>>

RemoveUser(l, user, type) ==
    /\ pc = "registry"
    /\ WithinBound(removeUser(users[l], user, type).users)
    /\ users' = [users EXCEPT ![l] = removeUser(users[l], user, type).users]
    /\ call' = [op |-> "removeUser", local |-> l, user |-> user, type |-> type,
                error |-> removeUser(users[l], user, type).error,
                before |-> users[l], result |-> <<>>]
    /\ UNCHANGED <<method, pc, blk, it, method0, last, moves, frame>>

\* a call of getSingleWriter, getUsers or forUsers; its result is kept as the
\* sequence of the users returned or handed to the consumer (a set in any
\* order of its elements)
RECURSIVE SeqOf(_)
SeqOf(set) ==
    IF set = {} THEN <<>>
    ELSE LET e == CHOOSE e \in set : TRUE IN <<e>> \o SeqOf(set \ {e})

GetSingleWriter(l) ==
    /\ pc = "registry"
    /\ call' = [op |-> "getSingleWriter", local |-> l, user |-> "", type |-> "",
                error |-> FALSE, before |-> users[l],
                result |-> <<getSingleWriter(users[l])>>]
    /\ UNCHANGED <<method, pc, blk, it, method0, last, moves, users, frame>>

GetUsers(l, type) ==
    /\ pc = "registry"
    /\ call' = [op |-> "getUsers", local |-> l, user |-> "", type |-> type,
                error |-> FALSE, before |-> users[l],
                result |-> SeqOf(getUsers(users[l], type))]
    /\ UNCHANGED <<method, pc, blk, it, method0, last, moves, users, frame>>

ForUsers(l, type) ==
    /\ pc = "registry"
    /\ call' = [op |-> "forUsers", local |-> l, user |-> "", type |-> type,
                error |-> FALSE, before |-> users[l],
                result |-> forUsers(users[l], type)]
    /\ UNCHANGED <<method, pc, blk, it, method0, last, moves, users, frame>>

\* the use records of a Local that is used as getUsedLocals tells: the
\* construction of a user registers it with the Locals it uses
Registered(l) ==
    IF l \in DOMAIN getUsedLocals("u1")
    THEN addUser(<<>>, "u1", getUsedLocals("u1")[l])
    ELSE <<>>

InitLocals ==
    /\ method = <<>>
    /\ method0 = <<>>
    /\ pc = "registry"
    /\ blk = 0
    /\ it = 0
    /\ last = NoIteration
    /\ moves = {}
    /\ users = [l \in Locals |-> Registered(l)]
    /\ call = NoCall
    /\ frame = NoFrame

NextLocals ==
    \E l \in RegistryLocals, user \in RegistryUsers, type \in UserType :
        \/ AddUser(l, user, type)
        \/ RemoveUser(l, user, type)
        \/ GetSingleWriter(l)
        \/ GetUsers(l, type)
        \/ ForUsers(l, type)

SpecLocals == InitLocals /\ [][NextLocals]_vars

\* the use records the last call was made on, as it left them
After == users[call.local]

\* C9: removeUser(user, READER) and removeUser(user, WRITER) on a Local
\* without record for the user fail with a CompilationError and leave the
\* use records as they were.
C9_RemoveOfMissingUserFails ==
    (call.op = "removeUser" /\ call.type \in {READER, WRITER}
        /\ \A i \in DOMAIN call.before : call.before[i].user # call.user)
    => (call.error /\ After = call.before)

\* a failed removeUser on a Local that holds a record of another user
C9_Witness ==
    /\ call.op = "removeUser"
    /\ call.type \in {READER, WRITER}
    /\ call.error
    /\ call.before # <<>>

\* a user's record in the given use records, LocalUse when there is none
UseOf(us, user) == IF Find(us, user) = 0 THEN LocalUse ELSE us[Find(us, user)].use

\* C10: a user has a use record exactly when its read-count or its
\* write-count is greater than zero (a user has one record at most and no
\* record has both counters at zero), and a call other than
\* removeUser(user, BOTH) drops a record only when it leaves none of the two
\* counters greater than zero.
C10_RecordIffCounted ==
    /\ \A l \in Locals : \A i, j \in DOMAIN users[l] :
          /\ users[l][i].use.numReads # 0 \/ users[l][i].use.numWrites # 0
          /\ users[l][i].user = users[l][j].user => i = j
    /\ \A u \in RegistryUsers :
          (call.op # "none" /\ Find(call.before, u) # 0 /\ Find(After, u) = 0)
          => \/ (call.op = "removeUser" /\ call.type = BOTH /\ call.user = u)
             \/ /\ call.op = "removeUser"
                /\ call.user = u
                /\ call.type = READER
                /\ UseOf(call.before, u) = [numReads |-> 1, numWrites |-> 0]
             \/ /\ call.op = "removeUser"
                /\ call.user = u
                /\ call.type = WRITER
                /\ UseOf(call.before, u) = [numReads |-> 0, numWrites |-> 1]

\* the use records addUser(user, READER) followed by removeUser(user, READER)
\* leaves, and whether the removal threw
AddThenRemove(us, user) == removeUser(addUser(us, user, READER), user, READER)

Others(us, user) == SelectSeq(us, LAMBDA r : r.user # user)

\* C12: removeUser(U, BOTH) never fails and is idempotent: on a Local with or
\* without record for U it leaves no record for U and the records of the
\* other users as they were, and a second removeUser(U, BOTH) changes nothing
\* and does not fail either.
C12_RemoveBothIdempotent ==
    /\ \A l \in RegistryLocals, u \in RegistryUsers :
          LET first == removeUser(users[l], u, BOTH)
              second == removeUser(first.users, u, BOTH)
          IN  /\ ~first.error
              /\ Find(first.users, u) = 0
              /\ first.users = Others(users[l], u)
              /\ ~second.error
              /\ second.users = first.users
    /\ (call.op = "removeUser" /\ call.type = BOTH)
          => /\ ~call.error
             /\ Find(After, call.user) = 0
             /\ After = Others(call.before, call.user)

\* removeUser(U, BOTH) on a Local that has no record for U any more and holds
\* the record of another user
C12_Witness ==
    /\ call.op = "removeUser"
    /\ call.type = BOTH
    /\ Find(call.before, call.user) = 0
    /\ call.before # <<>>
    /\ After = call.before

\* what a call with the given type adds to the read-count and the write-count
Added(type) ==
    [numReads |-> IF type \in {READER, BOTH} THEN 1 ELSE 0,
     numWrites |-> IF type \in {WRITER, BOTH} THEN 1 ELSE 0]

\* the given use with n calls of the given type counted, in the arithmetic
\* of the counters (modulo 2^32)
Counted(use, type, n) ==
    [numReads |-> use.numReads + n * Added(type).numReads,
     numWrites |-> use.numWrites + n * Added(type).numWrites]

\* the use records after n calls of addUser(user, type)
RECURSIVE addUserTimes(_, _, _, _)
addUserTimes(us, user, type, n) ==
    IF n = 0 THEN us ELSE addUserTimes(addUser(us, user, type), user, type, n - 1)

\* C13: addUser never fails, makes the record of the user when there is none
\* and counts: READER adds one to the read-count only, WRITER one to the
\* write-count only, BOTH one to each; n calls in a row add n; the records of
\* the other users stay as they are.
C13_AddUserCounts ==
    /\ call.op = "addUser"
          => /\ ~call.error
             /\ Find(After, call.user) # 0
             /\ UseOf(After, call.user)
                    = Counted(UseOf(call.before, call.user), call.type, 1)
             /\ Others(After, call.user) = Others(call.before, call.user)
    /\ \A l \in RegistryLocals, u \in RegistryUsers, type \in UserType :
          \A n \in 1..MaxCount :
             /\ Find(addUserTimes(users[l], u, type, n), u) # 0
             /\ UseOf(addUserTimes(users[l], u, type, n), u)
                    = Counted(UseOf(users[l], u), type, n)
             /\ Others(addUserTimes(users[l], u, type, n), u) = Others(users[l], u)

\* addUser(U, WRITER) on a Local where U has reads and no write counted and
\* another user has a record
C13_Witness ==
    /\ call.op = "addUser"
    /\ call.type = WRITER
    /\ UseOf(call.before, call.user) = [numReads |-> MaxCount, numWrites |-> 0]
    /\ UseOf(After, call.user) = [numReads |-> MaxCount, numWrites |-> 1]
    /\ Others(After, call.user) # <<>>

\* the users of the given use records with a write counted
Writers(us) == {us[i].user : i \in {j \in DOMAIN us : us[j].use.numWrites # 0}}

\* C14: getSingleWriter returns W exactly when W is the only user of the
\* Local with a write counted, returns none when no user or more than one
\* has a write counted, and leaves the registry as it is.
C14_SingleWriter ==
    call.op = "getSingleWriter"
    => /\ After = call.before
       /\ \A w \in RegistryUsers :
             call.result = <<w>> <=> Writers(call.before) = {w}
       /\ Cardinality(Writers(call.before)) # 1 <=> call.result = <<nullptr>>

\* getSingleWriter finds the one writer behind a user that only reads
C14_Witness ==
    /\ call.op = "getSingleWriter"
    /\ Len(call.before) = 2
    /\ ~writesLocal(call.before[1].use)
    /\ call.result = <<call.before[2].user>>

\* the elements of a sequence
Range(seq) == {seq[i] : i \in DOMAIN seq}

\* the users of the given use records the filter names: READER those with a
\* read counted, WRITER those with a write counted, BOTH those with either
Filtered(us, type) ==
    {us[i].user : i \in {j \in DOMAIN us :
        \/ (type \in {READER, BOTH} /\ us[j].use.numReads # 0)
        \/ (type \in {WRITER, BOTH} /\ us[j].use.numWrites # 0)}}

---------------------------------------------------------------------------
(* Cursors over a whole method, and what the passes before the reordering *)
(* read of an instruction                                                  *)

\* instructions of a method after its first label, read-after-write splitting
SplitLen == 4

\* the temporaries method.addNewLocal can hand out, in the order it does
TemporaryNames == <<"%vector_rotation.1", "%vector_rotation.2">>
Temporaries == Range(TemporaryNames)
\* a Global is a Local that belongs to the module, not to a method
Globals == {"g"}
AllLocals == Locals \cup Temporaries \cup Globals

\* hasValueType(ValueType::LOCAL) / hasType(ValueType::LOCAL)
IsLocal(value) == value \in AllLocals

\* an instruction with a pack mode
Packed(instr) == [instr EXCEPT !.pack = TRUE]

\* a vector rotation of the source by a literal offset, and a move
VectorRotation(out, source) == Instruction("VectorRotation", out, <<source, LITERAL>>)
MoveOperation(out, source) == Instruction("MoveOperation", out, <<source>>)

\* LocalUser::readsLocal / writesLocal of an instruction: getUsedLocals is
\* derived from its arguments and its output
InstructionReadsLocal(instr, local) == \E i \in DOMAIN instr.args : instr.args[i] = local
InstructionWritesLocal(instr, local) == instr.out = local

\* a cursor is <<block, position>>; method.walkAllInstructions() is <<1, 1>>
InstructionAt(m, cursor) == m[cursor[1]][cursor[2]]

\* InstructionWalker::isEndOfMethod and nextInMethod
IsEndOfMethod(m, cursor) ==
    cursor[1] = Len(m) /\ IsEndOfBlock(m[cursor[1]], cursor[2])
NextInMethod(m, cursor) ==
    IF cursor[2] + 1 <= Len(m[cursor[1]]) \/ cursor[1] = Len(m)
    THEN <<cursor[1], cursor[2] + 1>>
    ELSE <<cursor[1] + 1, 1>>

\* the window of instructions, counted from the cursor it is asked for,
\* within which the uses of a Local have to lie for isLocallyLimited
ACCUMULATOR_THRESHOLD_HINT == 2

\* the cursors of the instructions that read or write the Local
UsesOf(m, local) ==
    {c \in UNION {{<<b, q>> : q \in DOMAIN m[b]} : b \in DOMAIN m} :
        /\ ~IsNull(InstructionAt(m, c))
        /\ \/ InstructionReadsLocal(InstructionAt(m, c), local)
           \/ InstructionWritesLocal(InstructionAt(m, c), local)}

\* BasicBlock::isLocallyLimited(cursor, local): every use of the Local lies
\* in the cursor's block, within the window that starts at the cursor
isLocallyLimited(m, cursor, local) ==
    \A c \in UsesOf(m, local) :
        /\ c[1] = cursor[1]
        /\ c[2] >= cursor[2]
        /\ c[2] <= cursor[2] + ACCUMULATOR_THRESHOLD_HINT

\* InstructionWalker::emplace: the instruction is inserted before the cursor
Emplace(m, cursor, instr) ==
    [m EXCEPT ![cursor[1]] =
        SubSeq(@, 1, cursor[2] - 1) \o <<instr>> \o SubSeq(@, cursor[2], Len(@))]

\* where a cursor points after an instruction was emplaced at another one:
\* it stays with its instruction
Shifted(cursor, at) ==
    IF cursor[1] = at[1] /\ cursor[2] >= at[2]
    THEN <<cursor[1], cursor[2] + 1>>
    ELSE cursor

\* the instructions of a method
InstructionsOf(m) ==
    {InstructionAt(m, c) : c \in UNION {{<<b, q>> : q \in DOMAIN m[b]} : b \in DOMAIN m}}

\* the id a new instruction gets
FreshId(m) ==
    1 + (CHOOSE n \in {i.id : i \in InstructionsOf(m)} :
            \A i \in InstructionsOf(m) : i.id <= n)

\* the passes of the optimizer in the order of their indices
passes == <<"runSingleSteps", "splitReadAfterWrites", "replaceNOPs">>

\* mutant: the optimizer leaves out the pass that is next
NextPassSkipped(pass) ==
    LET i == CHOOSE j \in DOMAIN passes : passes[j] = pass
    IN  IF i + 1 < Len(passes) THEN passes[i + 2] ELSE "done"

\* the pass that runs after the given one, "done" after the last
NextPass(pass) ==
    LET i == CHOOSE j \in DOMAIN passes : passes[j] = pass
    IN  IF i < Len(passes) THEN passes[i + 1] ELSE "done"

---------------------------------------------------------------------------
(* Read-after-write splitting, Reordering.cpp *)

\* mutant: a vector rotation is treated as any other reader
NeedsDelayButForRotation(m, cursor, fr) ==
    /\ ~IsNull(InstructionAt(m, cursor))
    /\ fr.lastWrittenTo # NO_VALUE
    /\ InstructionReadsLocal(InstructionAt(m, cursor), fr.lastWrittenTo)
    /\ \/ InstructionAt(m, fr.lastInstruction).pack
       \/ ~isLocallyLimited(m, fr.lastInstruction, fr.lastWrittenTo)

\* the tests of the loop body that lead to the emplace
NeedsDelay(m, cursor, fr) ==
    /\ ~IsNull(InstructionAt(m, cursor))
    /\ fr.lastWrittenTo # NO_VALUE
    /\ InstructionReadsLocal(InstructionAt(m, cursor), fr.lastWrittenTo)
    /\ \/ InstructionAt(m, fr.lastInstruction).pack
       \/ InstructionAt(m, cursor).kind = "VectorRotation"
       \/ ~isLocallyLimited(m, fr.lastInstruction, fr.lastWrittenTo)

\* mutant: the placeholder is emplaced before the reading instruction
PlaceholderCursorAtReader(cursor, fr) == cursor

\* lastInstruction.copy().nextInBlock(): where the placeholder is emplaced
PlaceholderCursor(cursor, fr) ==
    <<fr.lastInstruction[1], fr.lastInstruction[2] + 1>>

\* the method after the iteration of the loop at the cursor
SplitIteration(m, cursor, fr) ==
    IF NeedsDelay(m, cursor, fr)
    THEN Emplace(m, PlaceholderCursor(cursor, fr),
                 [Nop("WAIT_REGISTER") EXCEPT !.id = FreshId(m)])
    ELSE m

\* the cursor of the iteration's instruction after the iteration
SplitCursor(m, cursor, fr) ==
    IF NeedsDelay(m, cursor, fr)
    THEN Shifted(cursor, PlaceholderCursor(cursor, fr))
    ELSE cursor

\* mutant: every instruction updates lastWrittenTo and lastInstruction,
\* mapped to a machine instruction or not
SplitFrameOfAnyInstruction(m, cursor, fr) ==
    IF ~IsNull(InstructionAt(m, cursor))
    THEN [lastInstruction |-> SplitCursor(m, cursor, fr),
          lastWrittenTo |-> IF IsLocal(InstructionAt(m, cursor).out)
                            THEN InstructionAt(m, cursor).out
                            ELSE NO_VALUE]
    ELSE fr

\* lastWrittenTo and lastInstruction after the iteration
SplitFrame(m, cursor, fr) ==
    IF ~IsNull(InstructionAt(m, cursor)) /\ InstructionAt(m, cursor).asm
    THEN [lastInstruction |-> SplitCursor(m, cursor, fr),
          lastWrittenTo |-> IF IsLocal(InstructionAt(m, cursor).out)
                            THEN InstructionAt(m, cursor).out
                            ELSE NO_VALUE]
    ELSE IF NeedsDelay(m, cursor, fr)
    THEN [fr EXCEPT !.lastInstruction = Shifted(@, PlaceholderCursor(cursor, fr))]
    ELSE fr

NoSplit == [reader |-> <<0, 0>>, writer |-> <<0, 0>>, local |-> NO_VALUE,
            before |-> <<>>]

\* one iteration of the loop of splitReadAfterWrites
splitReadAfterWrites ==
    /\ pc = "splitReadAfterWrites"
    /\ ~IsEndOfMethod(method, <<blk, it>>)
    /\ method' = SplitIteration(method, <<blk, it>>, frame)
    /\ frame' = SplitFrame(method, <<blk, it>>, frame)
    /\ blk' = NextInMethod(method', SplitCursor(method, <<blk, it>>, frame))[1]
    /\ it' = NextInMethod(method', SplitCursor(method, <<blk, it>>, frame))[2]
    /\ last' = [reader |-> <<blk, it>>, writer |-> frame.lastInstruction,
                local |-> frame.lastWrittenTo, before |-> method]
    /\ UNCHANGED <<pc, method0, moves, users, call>>

\* the loop has reached the end of the method: the pass returns and the
\* optimizer starts the next pass on the method
splitReadAfterWritesEnd ==
    /\ pc = "splitReadAfterWrites"
    /\ IsEndOfMethod(method, <<blk, it>>)
    /\ pc' = NextPass(pc)
    /\ blk' = 1
    /\ it' = 1
    /\ method0' = method
    /\ last' = NoIteration
    /\ moves' = {}
    /\ frame' = NoFrame
    /\ UNCHANGED <<method, users, call>>

\* catalog: writes with and without pack mode, plain and rotating readers
CatalogSplit ==
    {BranchLabel, Op("x", <<LITERAL>>), Packed(Op("x", <<LITERAL>>)),
     Op("y", <<"x">>), VectorRotation("y", "x"), Op("z", <<"x">>)}

InitSplit ==
    /\ \E f \in [1..SplitLen -> CatalogSplit] : method = BuildMethod(f)
    /\ method0 = method
    /\ pc = "splitReadAfterWrites"
    /\ blk = NextInMethod(method, <<1, 1>>)[1]
    /\ it = NextInMethod(method, <<1, 1>>)[2]
    /\ frame = [lastInstruction |-> <<1, 1>>, lastWrittenTo |-> NO_VALUE]
    /\ last = NoSplit
    /\ moves = {}
    /\ users = [l \in Locals |-> <<>>]
    /\ call = NoCall

NextSplit == splitReadAfterWrites \/ splitReadAfterWritesEnd \/ NextReorder

SpecSplit == InitSplit /\ [][NextSplit]_vars

---------------------------------------------------------------------------
(* What is said of the last iteration of splitReadAfterWrites *)

\* the last step was an iteration of the loop of splitReadAfterWrites
SplitDone == pc = "splitReadAfterWrites" /\ last.reader # <<0, 0>>

\* the instruction of the iteration and the tracked write
Reader == InstructionAt(last.before, last.reader)
Writer == InstructionAt(last.before, last.writer)

\* the instruction of the iteration reads the Local of the tracked write
ReadsTrackedWrite ==
    /\ last.local # NO_VALUE
    /\ \E i \in DOMAIN Reader.args : Reader.args[i] = last.local

\* the ids of the instructions of a method
IdsOf(m) == {i.id : i \in InstructionsOf(m)}

\* the instructions the iteration added to the method
NewInstructions == {i \in InstructionsOf(method) : i.id \notin IdsOf(last.before)}

\* the number of slots of a method
RECURSIVE SlotCount(_)
SlotCount(m) == IF m = <<>> THEN 0 ELSE Len(Head(m)) + SlotCount(Tail(m))

\* the iteration put exactly one WAIT_REGISTER placeholder into the method
PlaceholderInserted ==
    /\ SlotCount(method) = SlotCount(last.before) + 1
    /\ \E nop \in NewInstructions :
          NewInstructions = {nop} /\ nop.kind = "Nop" /\ nop.type = "WAIT_REGISTER"

\* C16: an iteration of splitReadAfterWrites inserts a WAIT_REGISTER
\* placeholder exactly when its instruction reads the Local of the last
\* tracked write and the writer has a pack mode, or the reader is a vector
\* rotation, or the written Local is not locally limited from the writer;
\* in every other case it leaves the method as it is.
C16_PlaceholderIffHazard ==
    SplitDone
    => /\ PlaceholderInserted
            <=> /\ ReadsTrackedWrite
                /\ \/ Writer.pack
                   \/ Reader.kind = "VectorRotation"
                   \/ ~isLocallyLimited(last.before, last.writer, last.local)
       /\ PlaceholderInserted \/ method = last.before

\* a placeholder for a vector rotation that reads a write without pack mode
\* whose Local is locally limited
C16_Witness ==
    /\ SplitDone
    /\ PlaceholderInserted
    /\ Reader.kind = "VectorRotation"
    /\ ~Writer.pack
    /\ isLocallyLimited(last.before, last.writer, last.local)

\* C17: the placeholder is inserted directly behind the writing instruction,
\* in the block of the writer, not before the reader: the writer's block is
\* as before with a WAIT_REGISTER placeholder at the position after the
\* writer, every other block is untouched, so that a write at the end of a
\* block read in the next one becomes write, placeholder, label, read.
C17_PlaceholderBehindWriter ==
    (SplitDone /\ method # last.before)
    => /\ Len(method) = Len(last.before)
       /\ \A b \in DOMAIN method : b # last.writer[1] => method[b] = last.before[b]
       /\ LET old == last.before[last.writer[1]]
              new == method[last.writer[1]]
              w == last.writer[2]
          IN  /\ Len(new) = Len(old) + 1
              /\ SubSeq(new, 1, w) = SubSeq(old, 1, w)
              /\ new[w] = Writer
              /\ new[w + 1].kind = "Nop"
              /\ new[w + 1].type = "WAIT_REGISTER"
              /\ SubSeq(new, w + 2, Len(new)) = SubSeq(old, w + 1, Len(old))

\* write, placeholder, label, read: the writer ends its block, the reader is
\* the first instruction behind the label of the next block
C17_Witness ==
    /\ SplitDone
    /\ PlaceholderInserted
    /\ last.reader = <<last.writer[1] + 1, 2>>
    /\ last.writer[2] = Len(last.before[last.writer[1]])
    /\ method[last.writer[1]][last.writer[2] + 1].kind = "Nop"
    /\ method[last.reader[1]][1].kind = "BranchLabel"
    /\ method[last.reader[1]][2] = Reader

---------------------------------------------------------------------------
(* Moving the sources of vector rotations to temporaries, Reordering.cpp, *)
(* as one of the single steps the optimizer drives over a method           *)

\* instructions of a method after its first label, rotation hoisting
HoistLen == 4

\* the number of arguments of the instruction that are the Local
ReadCount(instr, local) == Cardinality({i \in DOMAIN instr.args : instr.args[i] = local})

\* the use records after the instruction has registered with the Locals it
\* writes and reads (its user is its id)
Register(us, instr) ==
    [l \in DOMAIN us |->
        addUserTimes(IF instr.out = l THEN addUser(us[l], instr.id, WRITER) ELSE us[l],
                     instr.id, READER, ReadCount(instr, l))]

RECURSIVE RegisterAll(_, _)
RegisterAll(us, instrs) ==
    IF instrs = <<>> THEN us
    ELSE RegisterAll(Register(us, Head(instrs)), Tail(instrs))

\* the instructions of a method in the order of the method
RECURSIVE Flat(_)
Flat(m) == IF m = <<>> THEN <<>> ELSE Head(m) \o Flat(Tail(m))

\* the use registry of a method whose instructions were made in their order
RegistryOf(m) == RegisterAll([l \in AllLocals |-> <<>>], Flat(m))

\* the loop that looks for the writer of the rotation's source: the position
\* it stops at, the start of the block when it has found no writer
RECURSIVE FindWriter(_, _, _)
FindWriter(block, pos, loc) ==
    IF IsStartOfBlock(pos) THEN pos
    ELSE IF ~IsNull(block[pos]) /\ IsLocal(block[pos].out) /\ block[pos].out = loc
    THEN pos
    ELSE FindWriter(block, pos - 1, loc)

\* the step applies to the instruction: a vector rotation of a Local
IsRotationOfLocal(m, cursor) ==
    /\ ~IsNull(InstructionAt(m, cursor))
    /\ InstructionAt(m, cursor).kind = "VectorRotation"
    /\ IsLocal(InstructionAt(m, cursor).args[1])

\* the cursor of the writer for the rotation at the cursor
WriterOf(m, cursor) ==
    <<cursor[1],
      FindWriter(m[cursor[1]], cursor[2] - 1, InstructionAt(m, cursor).args[1])>>

\* mutant: the source is moved only when the block has no writer
NeedsTemporaryWithoutWriter(m, cursor) ==
    /\ IsRotationOfLocal(m, cursor)
    /\ IsStartOfBlock(WriterOf(m, cursor)[2])

\* the source of the rotation at the cursor is moved to a temporary
NeedsTemporary(m, cursor) ==
    /\ IsRotationOfLocal(m, cursor)
    /\ \/ IsStartOfBlock(WriterOf(m, cursor)[2])
       \/ ~isLocallyLimited(m, WriterOf(m, cursor), InstructionAt(m, cursor).args[1])

\* the loop that moves mapper back while the instruction before it is a Nop;
\* no instruction stands before the start of the block
RECURSIVE Mapper(_, _)
Mapper(block, pos) ==
    IF ~IsStartOfBlock(pos) /\ block[pos - 1].kind = "Nop"
    THEN Mapper(block, pos - 1)
    ELSE pos

\* the cursor the copy is emplaced at
MapperOf(m, cursor) == <<cursor[1], Mapper(m[cursor[1]], cursor[2] - 1)>>

\* the Locals a method uses
UsedLocals(m) == {l \in AllLocals : UsesOf(m, l) # {}}

\* method.addNewLocal: a temporary the method does not have yet
addNewLocal(m) ==
    TemporaryNames[CHOOSE i \in DOMAIN TemporaryNames :
                      /\ TemporaryNames[i] \notin UsedLocals(m)
                      /\ \A j \in 1..(i - 1) : TemporaryNames[j] \in UsedLocals(m)]

\* IntermediateInstruction::replaceLocal(oldLocal, newLocal, READER): the
\* instruction with its arguments replaced
replaceLocal(instr, oldLocal, newLocal) ==
    [instr EXCEPT !.args = [i \in DOMAIN @ |-> IF @[i] = oldLocal THEN newLocal ELSE @[i]]]

\* the use records after n calls of removeUser(user, READER)
RECURSIVE removeUserTimes(_, _, _)
removeUserTimes(us, user, n) ==
    IF n = 0 THEN us
    ELSE removeUserTimes(removeUser(us, user, READER).users, user, n - 1)

\* the use registry after replaceLocal(oldLocal, newLocal, READER) of the
\* instruction
ReplaceLocalUses(us, instr, oldLocal, newLocal) ==
    [l \in DOMAIN us |->
        IF l = oldLocal
        THEN removeUserTimes(us[l], instr.id, ReadCount(instr, oldLocal))
        ELSE IF l = newLocal
        THEN addUserTimes(us[l], instr.id, READER, ReadCount(instr, oldLocal))
        ELSE us[l]]

\* the copy of the rotation's source the step makes
CopyOf(m, cursor) ==
    [MoveOperation(addNewLocal(m), InstructionAt(m, cursor).args[1])
        EXCEPT !.id = FreshId(m)]

\* moveRotationSourcesToAccumulators at the cursor: the method and the use
\* registry it leaves and the cursor it returns
moveRotationSourcesToAccumulators(m, us, cursor) ==
    IF NeedsTemporary(m, cursor)
    THEN [method |->
             [Emplace(m, MapperOf(m, cursor), CopyOf(m, cursor))
                 EXCEPT ![cursor[1]][Shifted(cursor, MapperOf(m, cursor))[2]] =
                     replaceLocal(@, InstructionAt(m, cursor).args[1], addNewLocal(m))],
          users |->
             ReplaceLocalUses(Register(us, CopyOf(m, cursor)),
                              InstructionAt(m, cursor),
                              InstructionAt(m, cursor).args[1], addNewLocal(m)),
          cursor |-> Shifted(WriterOf(m, cursor), MapperOf(m, cursor))]
    ELSE [method |-> m, users |-> us, cursor |-> cursor]

NoStep == [at |-> <<0, 0>>, returned |-> <<0, 0>>, before |-> <<>>, users |-> <<>>]

\* the optimizer runs the step at its cursor and goes on behind the cursor
\* the step returns
runSingleSteps ==
    /\ pc = "runSingleSteps"
    /\ ~IsEndOfMethod(method, <<blk, it>>)
    /\ NeedsTemporary(method, <<blk, it>>) => Temporaries \ UsedLocals(method) # {}
    /\ method' = moveRotationSourcesToAccumulators(method, users, <<blk, it>>).method
    /\ users' = moveRotationSourcesToAccumulators(method, users, <<blk, it>>).users
    /\ blk' = NextInMethod(method',
                 moveRotationSourcesToAccumulators(method, users, <<blk, it>>).cursor)[1]
    /\ it' = NextInMethod(method',
                 moveRotationSourcesToAccumulators(method, users, <<blk, it>>).cursor)[2]
    /\ last' = [at |-> <<blk, it>>,
                returned |-> moveRotationSourcesToAccumulators(method, users,
                                                               <<blk, it>>).cursor,
                before |-> method, users |-> users]
    /\ UNCHANGED <<pc, method0, moves, call, frame>>

\* the steps have been driven to the end of the method: the optimizer starts
\* the next pass on it
runSingleStepsEnd ==
    /\ pc = "runSingleSteps"
    /\ IsEndOfMethod(method, <<blk, it>>)
    /\ pc' = NextPass(pc)
    /\ blk' = NextInMethod(method, <<1, 1>>)[1]
    /\ it' = NextInMethod(method, <<1, 1>>)[2]
    /\ frame' = [lastInstruction |-> <<1, 1>>, lastWrittenTo |-> NO_VALUE]
    /\ method0' = method
    /\ last' = NoSplit
    /\ UNCHANGED <<method, moves, users, call>>

\* catalog: rotations of a Local into another and in place, placeholders,
\* a writer and another reader of the rotated Local
CatalogHoist ==
    {BranchLabel, Nop("WAIT_REGISTER"), Op("x", <<LITERAL>>),
     VectorRotation("y", "x"), VectorRotation("x", "x"), Op("z", <<"x">>)}

InitOptimize(catalog, len) ==
    /\ \E f \in [1..len -> catalog] : method = BuildMethod(f)
    /\ method0 = method
    /\ pc = passes[1]
    /\ blk = 1
    /\ it = 1
    /\ frame = NoFrame
    /\ last = NoStep
    /\ moves = {}
    /\ users = RegistryOf(method)
    /\ call = NoCall

InitHoist == InitOptimize(CatalogHoist, HoistLen)

\* Optimizer::optimize on one method: the passes one after the other
NextOptimize == runSingleSteps \/ runSingleStepsEnd \/ NextSplit

SpecHoist == InitHoist /\ [][NextOptimize]_vars

---------------------------------------------------------------------------
(* What is said of the last step of moveRotationSourcesToAccumulators *)

\* the last step of the optimizer was a call of the step
StepDone == pc = "runSingleSteps" /\ last.at # <<0, 0>>

\* the instruction the step was called at, its block and the Local it rotates
Stepped == InstructionAt(last.before, last.at)
SteppedBlock == last.before[last.at[1]]
Source == Stepped.args[1]
IsRotation == Stepped.kind = "VectorRotation" /\ Source \in AllLocals

\* the positions before the rotation, from the given one on, whose
\* instruction writes the rotated Local
WritersFrom(first) ==
    {q \in first..(last.at[2] - 1) : SteppedBlock[q].out = Source}

Latest(positions) == CHOOSE q \in positions : \A r \in positions : r <= q

\* the rotated Local is not locally limited from the latest of the writers
NotLimitedFrom(writers) ==
    ~isLocallyLimited(last.before, <<last.at[1], Latest(writers)>>, Source)

\* the instructions the step added to the method
Copies == {i \in InstructionsOf(method) : i.id \notin IdsOf(last.before)}

\* the rotation as the step left it
Rotated == CHOOSE i \in InstructionsOf(method) : i.id = Stepped.id

\* the step added one move of the rotated Local to a temporary the method
\* did not have, and made the rotation read the temporary
MovedToTemporary ==
    /\ SlotCount(method) = SlotCount(last.before) + 1
    /\ \E copy \in Copies :
          /\ Copies = {copy}
          /\ copy.kind = "MoveOperation"
          /\ copy.args = <<Source>>
          /\ copy.out \in Temporaries
          /\ UsesOf(last.before, copy.out) = {}
          /\ users[copy.out] # <<>>
          /\ \A l \in AllLocals \ {Source, copy.out} : users[l] = last.users[l]
          /\ UseOf(users[Source], copy.id) = [numReads |-> 1, numWrites |-> 0]
          /\ UseOf(users[copy.out], copy.id) = [numReads |-> 0, numWrites |-> 1]
          /\ Rotated = [Stepped EXCEPT !.args[1] = copy.out]
          /\ UseOf(users[copy.out], Stepped.id) = [numReads |-> 1, numWrites |-> 0]
    /\ InstructionsOf(method) \ (Copies \cup {Rotated})
          = InstructionsOf(last.before) \ {Stepped}

\* the step left the method and the registry alone and returned its cursor
NothingDone ==
    /\ method = last.before
    /\ users = last.users
    /\ last.returned = last.at

\* the cursor returned is at the given position of the block as it was
ReturnedAt(pos) ==
    InstructionAt(method, last.returned).id = SteppedBlock[pos].id

\* C18 as stated: for a rotation of a Local L, when no instruction before the
\* rotation in its block writes L or L is not locally limited from its writer
\* in the block, the step adds one fresh temporary T and one move T = L, makes
\* the rotation read T, leaves L without use record for the rotation and T
\* with a record of one read for it, and returns the cursor of the writer; in
\* every other case method and registry are unchanged and the cursor given is
\* returned.
C18_RotationSourceMoved ==
    StepDone
    => IF IsRotation /\ (WritersFrom(1) = {} \/ NotLimitedFrom(WritersFrom(1)))
       THEN /\ MovedToTemporary
            /\ Find(users[Source], Stepped.id) = 0
            /\ ReturnedAt(IF WritersFrom(1) = {} THEN 1 ELSE Latest(WritersFrom(1)))
       ELSE NothingDone

\* C18 amended: the writer is the one the backward scan finds, which stops at
\* the first instruction of the block without looking at it; L keeps no read
\* of the rotation, and no record of it unless the rotation also writes L;
\* the cursor returned is where the scan stopped, the writer or the start of
\* the block.
C18_RotationSourceMovedReadsOnly ==
    StepDone
    => IF IsRotation /\ (WritersFrom(2) = {} \/ NotLimitedFrom(WritersFrom(2)))
       THEN /\ MovedToTemporary
            /\ UseOf(users[Source], Stepped.id).numReads = 0
            /\ Find(users[Source], Stepped.id) = 0 <=> Stepped.out # Source
            /\ ReturnedAt(IF WritersFrom(2) = {} THEN 1 ELSE Latest(WritersFrom(2)))
       ELSE NothingDone

\* the source of a rotation is moved to a temporary because it is not
\* locally limited from its writer in the block
C18_Witness ==
    /\ StepDone
    /\ IsRotation
    /\ WritersFrom(2) # {}
    /\ NotLimitedFrom(WritersFrom(2))
    /\ MovedToTemporary
    /\ Stepped.out # Source
    /\ Find(users[Source], Stepped.id) = 0

\* C19: the copy the step inserts stands in the block of the rotation before
\* the earliest placeholder of the run of placeholders that directly precedes
\* the rotation: every instruction between the copy and the rotation is a
\* placeholder, the instruction before the copy is none, and without a
\* placeholder before the rotation the copy directly precedes the rotation.
C19_CopyBeforePlaceholderRun ==
    (StepDone /\ Copies # {})
    => \E c, r \in DOMAIN method[last.at[1]] :
          /\ method[last.at[1]][c] \in Copies
          /\ method[last.at[1]][r] = Rotated
          /\ c < r
          /\ \A q \in (c + 1)..(r - 1) : method[last.at[1]][q].kind = "Nop"
          /\ c > 1 => method[last.at[1]][c - 1].kind # "Nop"

\* the registry holds for every instruction of the method what it reads and
\* writes
RegistryConsistent ==
    \A l \in AllLocals, i \in InstructionsOf(method) :
        i.kind # "NULL"
        => UseOf(users[l], i.id)
              = [numReads |-> ReadCount(i, l), numWrites |-> IF i.out = l THEN 1 ELSE 0]


---------------------------------------------------------------------------
(* What is said of the order of the passes *)

\* the index of the pass the optimizer is in, in the order in which
\* Optimizer.h declares the passes; past the last pass when it is done
PassIndex(pass) ==
    CASE pass = "runSingleSteps" -> 0
      [] pass = "splitReadAfterWrites" -> 1
      [] pass = "replaceNOPs" -> 2
      [] pass = "done" -> 3

\* C20: the passes run on a method in the order of their indices, one after
\* the other: the optimizer goes from a pass to the pass with the next index
\* and to no other, only when the pass has walked the method to its end, and
\* the next pass starts on the method exactly as the pass left it; while the
\* single steps run, the optimizer goes on from behind the cursor the step
\* returned.
C20_PassesInOrder ==
    [][/\ pc' # pc
          => /\ PassIndex(pc') = PassIndex(pc) + 1
             /\ IsEndOfMethod(method, <<blk, it>>)
             /\ pc' # "done" => (method' = method /\ method0' = method)
       /\ (pc = "runSingleSteps" /\ pc' = pc)
          => /\ <<blk', it'>> = NextInMethod(method', last'.returned)
             /\ last'.at = <<blk, it>>
       /\ (pc' = pc /\ pc = "splitReadAfterWrites")
          => \A i \in InstructionsOf(method') :
                i.id \in IdsOf(method) \/ i.kind = "Nop"
       /\ (pc' = pc /\ pc = "replaceNOPs")
          => \A i \in InstructionsOf(method') : i.id \in IdsOf(method) \/ IsNull(i)
      ]_vars

\* read-after-write splitting inserts a placeholder because of the copy that
\* rotation hoisting has put into the method before
C20_Witness ==
    /\ SplitDone
    /\ PlaceholderInserted
    /\ Reader.kind = "MoveOperation"
    /\ Reader.out \in Temporaries


---------------------------------------------------------------------------
(* Methods optimized in parallel, Optimizer.h *)

WorkersLen == 2

\* the methods of the module, each optimized by a worker of its own
Workers == {"kernel1", "kernel2"}

\* the state a pass touches: <<kind, owner, name>>
MethodObject(w) == <<"method", w, "">>
RegistryObject(w, l) == <<"registry", IF l \in Globals THEN "module" ELSE w, l>>
ProfilerObject == <<"profiler", "process", "findReplacementCandidate">>

\* the use registries an iteration has written
Touched(w, before, after) ==
    {RegistryObject(w, l) : l \in {k \in DOMAIN before : before[k] # after[k]}}

\* the optimizer driving moveRotationSourcesToAccumulators on the method of
\* worker w: the state the iteration leaves and the objects it accesses
HoistIteration(w, m, us, cursor, fr) ==
    IF IsEndOfMethod(m, cursor)
    THEN [pass |-> NextPass("runSingleSteps"), method |-> m, users |-> us,
          cursor |-> NextInMethod(m, <<1, 1>>),
          frame |-> [lastInstruction |-> <<1, 1>>, lastWrittenTo |-> NO_VALUE],
          accesses |-> {MethodObject(w)}]
    ELSE [pass |-> "runSingleSteps",
          method |-> moveRotationSourcesToAccumulators(m, us, cursor).method,
          users |-> moveRotationSourcesToAccumulators(m, us, cursor).users,
          cursor |-> NextInMethod(
                        moveRotationSourcesToAccumulators(m, us, cursor).method,
                        moveRotationSourcesToAccumulators(m, us, cursor).cursor),
          frame |-> fr,
          accesses |-> {MethodObject(w)}
                       \cup Touched(w, us,
                               moveRotationSourcesToAccumulators(m, us, cursor).users)]

\* one iteration of splitReadAfterWrites on the method of worker w
SplitWorkerIteration(w, m, us, cursor, fr) ==
    IF IsEndOfMethod(m, cursor)
    THEN [pass |-> NextPass("splitReadAfterWrites"), method |-> m, users |-> us,
          cursor |-> <<1, 1>>, frame |-> NoFrame,
          accesses |-> {MethodObject(w)}]
    ELSE [pass |-> "splitReadAfterWrites",
          method |-> SplitIteration(m, cursor, fr), users |-> us,
          cursor |-> NextInMethod(SplitIteration(m, cursor, fr),
                                  SplitCursor(m, cursor, fr)),
          frame |-> SplitFrame(m, cursor, fr),
          accesses |-> {MethodObject(w)}]

\* one iteration of reorderWithinBasicBlocks and replaceNOPs on the method of
\* worker w; findReplacementCandidate records its run time with the profiler
ReorderIteration(w, m, us, cursor, fr) ==
    IF ~IsEndOfBlock(m[cursor[1]], cursor[2])
    THEN [pass |-> "replaceNOPs",
          method |-> [m EXCEPT ![cursor[1]] = ReplaceNOPsIteration(@, cursor[2])],
          users |-> us, cursor |-> <<cursor[1], cursor[2] + 1>>, frame |-> fr,
          accesses |-> {MethodObject(w)}
                       \cup (IF IsReplaceableNop(InstructionAt(m, cursor))
                             THEN {ProfilerObject} ELSE {})]
    ELSE IF cursor[1] < Len(m)
    THEN [pass |-> "replaceNOPs", method |-> m, users |-> us,
          cursor |-> <<cursor[1] + 1, 1>>, frame |-> fr,
          accesses |-> {MethodObject(w)}]
    ELSE [pass |-> "done", method |-> cleanEmptyInstructions(m), users |-> us,
          cursor |-> cursor, frame |-> fr, accesses |-> {MethodObject(w)}]

\* Optimizer::optimize: the iteration of the pass the worker is in
WorkerIteration(w, pass, m, us, cursor, fr) ==
    CASE pass = "runSingleSteps" -> HoistIteration(w, m, us, cursor, fr)
      [] pass = "splitReadAfterWrites" -> SplitWorkerIteration(w, m, us, cursor, fr)
      [] pass = "replaceNOPs" -> ReorderIteration(w, m, us, cursor, fr)

NotRunning == [pass |-> "none"]

\* a worker starts an iteration of its pass: it reads the state the
\* iteration works on
WorkerBegin(w) ==
    /\ pc[w] # "done"
    /\ last[w] = NotRunning
    /\ (pc[w] = "runSingleSteps" /\ ~IsEndOfMethod(method[w], it[w])
            /\ NeedsTemporary(method[w], it[w]))
         => Temporaries \ UsedLocals(method[w]) # {}
    /\ last' = [last EXCEPT ![w] =
                   WorkerIteration(w, pc[w], method[w], users[w], it[w], frame[w])]
    /\ call' = [call EXCEPT ![w] = last'[w].accesses]
    /\ UNCHANGED <<method, pc, blk, it, method0, moves, users, frame>>

\* the worker finishes the iteration: what it has computed is written; the
\* registry of a Global is the same object for every worker
WorkerEnd(w) ==
    /\ last[w] # NotRunning
    /\ method' = [method EXCEPT ![w] = last[w].method]
    /\ users' = [v \in Workers |->
                    IF v = w THEN last[w].users
                    ELSE [l \in DOMAIN users[v] |->
                             IF l \in Globals THEN last[w].users[l]
                             ELSE users[v][l]]]
    /\ pc' = [pc EXCEPT ![w] = last[w].pass]
    /\ it' = [it EXCEPT ![w] = last[w].cursor]
    /\ frame' = [frame EXCEPT ![w] = last[w].frame]
    /\ last' = [last EXCEPT ![w] = NotRunning]
    /\ call' = [call EXCEPT ![w] = {}]
    /\ UNCHANGED <<blk, method0, moves>>

\* the instructions of kernel2 have ids of their own
MethodOfWorker(w, f) ==
    [b \in DOMAIN BuildMethod(f) |->
        [q \in DOMAIN BuildMethod(f)[b] |->
            [BuildMethod(f)[b][q] EXCEPT !.id = @ + (IF w = "kernel1" THEN 0 ELSE 10)]]]

\* catalog: a rotation of a Global, a placeholder, a write of a Local
CatalogWorkers ==
    {Nop("WAIT_REGISTER"), VectorRotation("y", "g"), Op("x", <<LITERAL>>)}

\* the registries as a worker sees them: those of the Locals of its method
\* and those of the Globals, which hold the users of every method
RegistryOfWorker(ms, w) ==
    [l \in AllLocals |->
        IF l \in Globals
        THEN RegisterAll([k \in AllLocals |-> <<>>],
                         Flat(ms["kernel1"]) \o Flat(ms["kernel2"]))[l]
        ELSE RegistryOf(ms[w])[l]]

InitWorkers ==
    /\ \E f \in [Workers -> [1..WorkersLen -> CatalogWorkers]] :
          method = [w \in Workers |-> MethodOfWorker(w, f[w])]
    /\ method0 = method
    /\ pc = [w \in Workers |-> passes[1]]
    /\ blk = 0
    /\ it = [w \in Workers |-> <<1, 1>>]
    /\ frame = [w \in Workers |-> NoFrame]
    /\ last = [w \in Workers |-> NotRunning]
    /\ moves = {}
    /\ users = [w \in Workers |-> RegistryOfWorker(method, w)]
    /\ call = [w \in Workers |-> {}]

NextWorkers == \E w \in Workers : WorkerBegin(w) \/ WorkerEnd(w)

SpecWorkers == InitWorkers /\ [][NextWorkers]_vars

---------------------------------------------------------------------------
(* Claims about methods optimized in parallel *)

\* C21: every read and write of a pass touches only the state of the method
\* the pass was given, and no two workers are ever inside accesses to the
\* same mutable state.
C21_WorkersConfined ==
    /\ \A w \in Workers : \A a \in call[w] : a[2] = w
    /\ \A w, v \in Workers : w # v => call[w] \cap call[v] = {}

---------------------------------------------------------------------------
(* Anti- and output-dependencies of a replacement *)

\* C22: the instruction moved into the placeholder's slot writes no value
\* that an instruction between the placeholder and the candidate's original
\* position reads or writes.
C22_NoWriteOfPassedAccess ==
    Replaced /\ HasOutput(Moved) /\ Moved.out # REG_NOP =>
        \A j \in Passed :
            /\ Moved.out \notin ArgumentsOf(last.before[j])
            /\ HasOutput(last.before[j]) => last.before[j].out # Moved.out

---------------------------------------------------------------------------
(* The counters of the use records *)

\* C23: the read-count and the write-count of every use record are never
\* below zero (as a counter that cannot be: never wrapped around), and a
\* removeUser(user, READER) or removeUser(user, WRITER) that meets a counter
\* of zero and raises no error leaves it at zero or drops the record.
C23_CountersNeverWrap ==
    /\ \A l \in DOMAIN users : \A i \in DOMAIN users[l] :
          /\ users[l][i].use.numReads >= 0
          /\ users[l][i].use.numWrites >= 0
    /\ (/\ call.op = "removeUser"
        /\ ~call.error
        /\ call.type = READER
        /\ UseOf(call.before, call.user).numReads = 0)
          => UseOf(After, call.user).numReads = 0
    /\ (/\ call.op = "removeUser"
        /\ ~call.error
        /\ call.type = WRITER
        /\ UseOf(call.before, call.user).numWrites = 0)
          => UseOf(After, call.user).numWrites = 0

---------------------------------------------------------------------------
(* Where the copy of a hoisted rotation source stands *)

\* C24: when the step inserts the copy T = L and an instruction before the
\* rotation in its block writes L, the copy stands after the latest such
\* writer and before the rotation, also when the writer directly precedes
\* the rotation.
C24_CopyBehindWriter ==
    (StepDone /\ Copies # {} /\ WritersFrom(1) # {})
    => \E c, r, w \in DOMAIN method[last.at[1]] :
          /\ method[last.at[1]][c] \in Copies
          /\ method[last.at[1]][r] = Rotated
          /\ method[last.at[1]][w].id = SteppedBlock[Latest(WritersFrom(1))].id
          /\ w < c
          /\ c < r

---------------------------------------------------------------------------
(* Driving the hoisting step to the end of the method *)

\* C25: a rotation that the step has made read a temporary is not hoisted
\* again when the driver comes back to it: the step called at a rotation of
\* a temporary leaves method and registry alone, so that every rotation is
\* hoisted once at most and the walk goes on to the end of the method.
C25_HoistedOnce ==
    (StepDone /\ IsRotation /\ Source \in Temporaries) => NothingDone

---------------------------------------------------------------------------
(* Placeholders that stay, SFU accesses behind a WAIT_REGISTER placeholder
   and the fusion flag *)

ScanLen == 4

NotCombined(instr) == [instr EXCEPT !.canBeCombined = FALSE]

\* catalog: placeholders with and without side effects and fusion, SFU and
\* TMU accesses, candidates with and without fusion
CatalogScan ==
    {BranchLabel, Nop("WAIT_REGISTER"),
     WithSideEffects(Nop("WAIT_REGISTER")), NotCombined(Nop("WAIT_REGISTER")),
     Op("x", <<LITERAL>>), NotCombined(Op("y", <<LITERAL>>)),
     Op(REG_SFU_EXP2, <<"x">>), Op(REG_SFU_LOG2, <<LITERAL>>),
     Op("z", <<REG_SFU_OUT>>), Op(REG_TMU_ADDRESS, <<LITERAL>>)}

InitScan == InitReorder(CatalogScan, ScanLen)
SpecScan == InitScan /\ [][NextReorder]_vars

\* the last iteration stood at a placeholder
AtPlaceholder ==
    pc = "replaceNOPs" /\ last.pos # 0 /\ last.before[last.pos].kind = "Nop"

\* no instruction between the start of the block and the placeholder
\* produces a result
NoProducerBefore ==
    \A j \in 2..(last.pos - 1) :
        IsNull(last.before[j]) \/ ~HasOutput(last.before[j])

\* C26: an iteration at a placeholder that has side effects, or for which the
\* candidate search returns no candidate (as it does for a WAIT_REGISTER
\* placeholder without result-producing instruction before it in its block),
\* replaces nothing and leaves every slot of the block as it was.
C26_PlaceholderStays ==
    (/\ AtPlaceholder
     /\ \/ last.before[last.pos].sideEffects
        \/ IsEndOfBlock(last.before,
               findReplacementCandidate(last.before, last.pos,
                                        last.before[last.pos].type))
        \/ last.before[last.pos].type = "WAIT_REGISTER" /\ NoProducerBefore)
    => (~Replaced /\ method[last.blk] = last.before)

\* the iteration at a placeholder with side effects for which the search
\* has a candidate
C26_Witness ==
    /\ AtPlaceholder
    /\ last.before[last.pos].sideEffects
    /\ ~IsEndOfBlock(last.before,
           findReplacementCandidate(last.before, last.pos,
                                    last.before[last.pos].type))
    /\ method[last.blk] = last.before

---------------------------------------------------------------------------
(* The window of the forward scan *)

\* the values excluded when the scan of the last iteration starts
InitiallyExcluded ==
    IF last.before[last.pos].type = "WAIT_REGISTER"
    THEN RegisterExclusion(last.before,
                           findPreviousInstruction(last.before, last.pos))
    ELSE WaitSFUExclusion

\* the values excluded when the scan comes to slot j: those it started with
\* and the results of the instructions it has passed
ExcludedBefore(j) ==
    InitiallyExcluded
    \cup UNION {ExcludeOutput(last.before[k], {}) :
                  k \in {q \in (last.pos + 1)..(j - 1) : ~IsNull(last.before[q])}}

\* the slots of the window: the placeholder's and those that follow it
Window ==
    {j \in DOMAIN last.before :
        last.pos <= j /\ j < last.pos + REPLACE_NOP_MAX_INSTRUCTIONS_TO_CHECK}

\* C27: a candidate is taken from the window of
\* REPLACE_NOP_MAX_INSTRUCTIONS_TO_CHECK slots that starts at the placeholder
\* only, it is the first instruction of the window that passes all checks,
\* and when no instruction of the window passes them the placeholder is not
\* replaced, whatever follows the window.
C27_WindowBounded ==
    /\ (pc = "replaceNOPs" /\ Replaced)
          => /\ last.cand \in Window
             /\ ValidReplacement(Moved, ExcludedBefore(last.cand))
             /\ \A j \in Passed :
                   ~ValidReplacement(last.before[j], ExcludedBefore(j))
    /\ (/\ AtPlaceholder
        /\ \A j \in Window :
              IsNull(last.before[j])
              \/ ~ValidReplacement(last.before[j], ExcludedBefore(j)))
          => (~Replaced /\ method[last.blk] = last.before)

\* a placeholder that is not replaced although an instruction behind the
\* window passes all checks
C27_Witness ==
    /\ AtPlaceholder
    /\ ~last.before[last.pos].sideEffects
    /\ ~IsStartOfBlock(findPreviousInstruction(last.before, last.pos))
    /\ ~Replaced
    /\ \E j \in DOMAIN last.before :
          /\ j >= last.pos + REPLACE_NOP_MAX_INSTRUCTIONS_TO_CHECK
          /\ ValidReplacement(last.before[j], ExcludedBefore(j))

---------------------------------------------------------------------------
(* SFU and TMU accesses behind a passed SFU or TMU access *)

SFURequestOrTMUAddress ==
    {REG_SFU_EXP2, REG_SFU_LOG2, REG_SFU_RECIP, REG_SFU_RECIP_SQRT,
     REG_TMU_ADDRESS}

\* C28: when the scan has passed an instruction whose result is an SFU
\* request register or the TMU address register, the instruction it chooses
\* has no SFU request register, not the SFU result register and not the TMU
\* address register as result or argument; and the chosen instruction
\* accesses no result, other than the discard register, of any instruction
\* the scan has passed.
C28_NoSecondSFUAccess ==
    (pc = "replaceNOPs" /\ Replaced)
    => /\ (\E j \in Passed : last.before[j].out \in SFURequestOrTMUAddress)
             => Accessed(Installed) \cap
                   (SFURequestOrTMUAddress \cup {REG_SFU_OUT}) = {}
       /\ \A j \in Passed :
             (HasOutput(last.before[j]) /\ last.before[j].out # REG_NOP)
                => last.before[j].out \notin Accessed(Installed)

\* a WAIT_REGISTER placeholder replaced by an instruction found behind a
\* passed SFU request
C28_Witness ==
    /\ pc = "replaceNOPs"
    /\ Replaced
    /\ last.before[last.pos].type = "WAIT_REGISTER"
    /\ \E j \in Passed : last.before[j].out \in SFURequestOrTMUAddress

---------------------------------------------------------------------------
(* The fusion flag of a replaced placeholder *)

\* C29: the instruction installed for a placeholder that could not be
\* combined cannot be combined; installed for a placeholder that could, it
\* has the flag it had before it was moved.
C29_FusionFlagCarriedOver ==
    (pc = "replaceNOPs" /\ Replaced)
    => /\ Installed.id = Moved.id
       /\ IF ~last.before[last.pos].canBeCombined
          THEN ~Installed.canBeCombined
          ELSE Installed.canBeCombined = Moved.canBeCombined

\* a placeholder that could not be combined replaced by an instruction that
\* could
C29_Witness ==
    /\ pc = "replaceNOPs"
    /\ Replaced
    /\ ~last.before[last.pos].canBeCombined
    /\ Moved.canBeCombined
    /\ ~Installed.canBeCombined

---------------------------------------------------------------------------
(* What the splitting pass tracks *)

TrackLen == 4

\* catalog: a write, readers, an existing placeholder, instructions that are
\* not mapped to a machine instruction, one that writes no Local
CatalogTrack ==
    {BranchLabel, Nop("WAIT_REGISTER"), Op("x", <<LITERAL>>),
     Op("y", <<"x">>), VectorRotation("y", "x"),
     NotMapped(Op("z", <<LITERAL>>)), Op(REG_NOP, <<LITERAL>>)}

InitTrack ==
    /\ \E f \in [1..TrackLen -> CatalogTrack] : method = BuildMethod(f)
    /\ method0 = method
    /\ pc = "splitReadAfterWrites"
    /\ blk = NextInMethod(method, <<1, 1>>)[1]
    /\ it = NextInMethod(method, <<1, 1>>)[2]
    /\ frame = [lastInstruction |-> <<1, 1>>, lastWrittenTo |-> NO_VALUE]
    /\ last = NoSplit
    /\ moves = {}
    /\ users = [l \in Locals |-> <<>>]
    /\ call = NoCall

SpecTrack == InitTrack /\ [][NextSplit]_vars

\* C30: an iteration at an instruction that is not mapped to a machine
\* instruction (a label) leaves lastWrittenTo as it was and lastInstruction
\* at its instruction; an iteration at a mapped instruction sets
\* lastInstruction to it and lastWrittenTo to the Local it writes, to none
\* when it writes none (a placeholder); and an iteration that finds no Local
\* tracked inserts nothing.
C30_TrackedWrite ==
    SplitDone
    => /\ ~Reader.asm
             => /\ frame.lastWrittenTo = last.local
                /\ InstructionAt(method, frame.lastInstruction).id = Writer.id
       /\ Reader.asm
             => /\ frame.lastWrittenTo
                      = (IF Reader.out \in AllLocals THEN Reader.out ELSE NO_VALUE)
                /\ InstructionAt(method, frame.lastInstruction).id = Reader.id
       /\ last.local = NO_VALUE => method = last.before

\* a placeholder inserted for a read that a label separates from its write
C30_Witness ==
    /\ SplitDone
    /\ PlaceholderInserted
    /\ last.writer[1] # last.reader[1]
    /\ InstructionAt(last.before, <<last.reader[1], 1>>).kind = "BranchLabel"

====
